---- MODULE Spec2Model ----
(***************************************************************************)
(* Admission Assistant: the streaming speech-to-text client, the audio     *)
(* layer and the text-to-speech client of the ESP32 build (src/esp32,      *)
(* ARDUINO_ARCH_ESP32 branches), the keyword intent classifier             *)
(* (src/code/ml_model.cpp) and the reply lookup                            *)
(* (src/code/faq_responder.cpp).                                           *)
(***************************************************************************)
EXTENDS Integers, Sequences, FiniteSets, TLC

(***************************************************************************)
(* Bounds of the model.                                                    *)
(***************************************************************************)
\* number of STTClient calls explored in one behaviour
MaxCalls == 4
\* number of vocabulary phrases joined into one classifier input
MaxWords == 3
\* number of AudioIO calls explored in one behaviour
MaxAudioCalls == 3
\* number of iterations of the playback loop of requestAndPlay that find the
\* connection open
MaxPolls == 3

(***************************************************************************)
(* STTClient (src/esp32/stt_client.h, src/esp32/stt_client.cpp)            *)
(***************************************************************************)
VARIABLES
  m_state,     \* STTClient::m_state
  m_endpoint,  \* STTClient::m_endpoint
  finalText,   \* the caller's String handed to endStream by reference
  ret,         \* value returned by the last call
  op,          \* name of the last call
  lastReq,     \* the HTTP request made by the last call, if any, and its outcome
  sent,        \* every HTTP request sent so far, in order
  calls,       \* number of calls made so far
  accepted,    \* number of pushAudio/endStream calls that found the state Streaming
  textBefore,  \* what finalText held when the last call was made
  raw,         \* the classifier's input text
  best,        \* the ClassificationResult returned by classify
  cpc,         \* position of the classifier's caller: "ready", "done", "replied"
  reply,       \* the text faqResponseForCategory gave for best.category
  g_outputEnabled, \* static bool g_outputEnabled of audio_io.cpp
  i2sLog,      \* the I2S configuration steps the last AudioIO::begin attempted
  audioRet,    \* value returned by the last AudioIO::begin
  audioOp,     \* name of the last AudioIO call
  audioCalls,  \* number of AudioIO calls made from the sketch so far
  bufCount,    \* AudioBuffer::count of the capture buffer
  playCalls,   \* sample counts handed to AudioIO::playSamples, in order
  i2sWritten,  \* sample counts written to I2S_NUM_1, in order
  tts_endpoint, \* TTSClient::m_endpoint
  tpc,         \* position of requestAndPlay: "idle", "loop" or "returned"
  ttsText,     \* the text handed to requestAndPlay
  postBody,    \* the body of the POST /tts request
  trc,         \* return code of the POST /tts request
  tret,        \* value returned by requestAndPlay
  connOpen,    \* what http.connected() reports
  polls,       \* iterations of the playback loop so far
  lastAvail,   \* stream->available() of the last iteration, -1 before any
  bytesRead,   \* bytes readBytes has delivered so far
  sleeps       \* number of delay(5) calls so far

sttVars == <<m_state, m_endpoint, finalText, ret, op, lastReq, sent, calls,
             accepted, textBefore>>
clsVars == <<raw, best, cpc, reply>>
audioVars == <<g_outputEnabled, i2sLog, audioRet, audioOp, audioCalls,
               bufCount, playCalls, i2sWritten>>
ttsVars == <<tts_endpoint, tpc, ttsText, postBody, trc, tret, connOpen, polls,
             lastAvail, bytesRead, sleeps>>
vars == <<m_state, m_endpoint, finalText, ret, op, lastReq, sent, calls,
          accepted, textBefore, raw, best, cpc, reply,
          g_outputEnabled, i2sLog, audioRet, audioOp, audioCalls, bufCount,
          playCalls, i2sWritten,
          tts_endpoint, tpc, ttsText, postBody, trc, tret, connOpen, polls,
          lastAvail, bytesRead, sleeps>>

\* enum class STTState { Idle, Streaming }
STTState == {"Idle", "Streaming"}

\* endpoint URLs the caller may hand to begin
Endpoints == {"http://a", "http://b"}

\* AudioBuffer::count values pushed (an empty and a full frame)
AUDIO_FRAME_SAMPLES == 512
BufCounts == {0, AUDIO_FRAME_SAMPLES}

\* sizeof(int16_t)
SizeofSample == 2

\* return codes of HTTPClient::POST / GET: a negative value is a transport
\* error, a positive one the HTTP status of the reply
HTTP_OK == 200
ReturnCodes == {-1, HTTP_OK, 404}

\* reply bodies of GET /stt/finish
Bodies == {"", "what is the deadline"}

\* values the caller's String may hold before the first endStream
CallerTexts == {"", "stale"}

NoRequest == [made |-> FALSE, method |-> "", url |-> "", bytes |-> 0,
              rc |-> 0, body |-> ""]

\* String::isEmpty
isEmpty(s) == s = ""

SttInit ==
  /\ m_state = "Idle"
  /\ m_endpoint = ""
  /\ finalText \in CallerTexts
  /\ ret = FALSE
  /\ op = "none"
  /\ lastReq = NoRequest
  /\ sent = << >>
  /\ calls = 0
  /\ accepted = 0
  /\ textBefore = finalText

\* bookkeeping shared by every call: which call it was and the caller's text
Called(name) ==
  /\ calls < MaxCalls
  /\ calls' = calls + 1
  /\ op' = name
  /\ textBefore' = finalText

\* bool STTClient::begin(const String &endpointUrl)
begin(endpointUrl) ==
  /\ Called("begin")
  /\ m_endpoint' = endpointUrl
  /\ ret' = TRUE
  /\ lastReq' = NoRequest
  /\ UNCHANGED <<m_state, finalText, sent, accepted>>

\* beginStream without its state check
beginStream_unguarded ==
  /\ Called("beginStream")
  /\ lastReq' = NoRequest
  /\ m_state' = "Streaming"
  /\ ret' = TRUE
  /\ UNCHANGED <<m_endpoint, finalText, sent, accepted>>

\* bool STTClient::beginStream()
beginStream ==
  /\ Called("beginStream")
  /\ lastReq' = NoRequest
  /\ IF m_state # "Idle"
       THEN /\ ret' = FALSE
            /\ UNCHANGED m_state
       ELSE /\ m_state' = "Streaming"
            /\ ret' = TRUE
  /\ UNCHANGED <<m_endpoint, finalText, sent, accepted>>

\* pushAudio treating every non-zero return code as success
pushAudioResult_nonzero(rc) == rc # 0

\* the value pushAudio returns for the return code of its POST
pushAudioResult(rc) == rc > 0

\* pushAudio without its state check
pushAudio_unguarded(count, rc) ==
  /\ Called("pushAudio")
  /\ lastReq' = [made |-> TRUE, method |-> "POST",
                 url |-> m_endpoint \o "/stt/chunk",
                 bytes |-> count * SizeofSample,
                 rc |-> rc, body |-> ""]
  /\ sent' = Append(sent, <<"POST", m_endpoint \o "/stt/chunk">>)
  /\ accepted' = IF m_state = "Streaming" THEN accepted + 1 ELSE accepted
  /\ ret' = pushAudioResult(rc)
  /\ UNCHANGED <<m_state, m_endpoint, finalText>>

\* pushAudio posting the chunk a second time when the first POST failed
pushAudio_retry(count, rc) ==
  /\ Called("pushAudio")
  /\ IF m_state # "Streaming"
       THEN /\ ret' = FALSE
            /\ lastReq' = NoRequest
            /\ UNCHANGED <<sent, accepted>>
       ELSE /\ lastReq' = [made |-> TRUE, method |-> "POST",
                           url |-> m_endpoint \o "/stt/chunk",
                           bytes |-> count * SizeofSample,
                           rc |-> rc, body |-> ""]
            /\ sent' = IF rc > 0
                         THEN Append(sent, <<"POST", m_endpoint \o "/stt/chunk">>)
                         ELSE Append(Append(sent,
                                <<"POST", m_endpoint \o "/stt/chunk">>),
                                <<"POST", m_endpoint \o "/stt/chunk">>)
            /\ accepted' = accepted + 1
            /\ ret' = pushAudioResult(rc)
  /\ UNCHANGED <<m_state, m_endpoint, finalText>>

\* bool STTClient::pushAudio(const AudioBuffer &buf)
pushAudio(count, rc) ==
  /\ Called("pushAudio")
  /\ IF m_state # "Streaming"
       THEN /\ ret' = FALSE
            /\ lastReq' = NoRequest
            /\ UNCHANGED <<sent, accepted>>
       ELSE /\ lastReq' = [made |-> TRUE, method |-> "POST",
                           url |-> m_endpoint \o "/stt/chunk",
                           bytes |-> count * SizeofSample,
                           rc |-> rc, body |-> ""]
            /\ sent' = Append(sent, <<"POST", m_endpoint \o "/stt/chunk">>)
            /\ accepted' = accepted + 1
            /\ ret' = pushAudioResult(rc)
  /\ UNCHANGED <<m_state, m_endpoint, finalText>>

\* endStream storing the reply body whatever the status
endStreamText_anyStatus(rc, body) == body

\* the text endStream stores for the outcome of its GET
endStreamText(rc, body) == IF rc = HTTP_OK THEN body ELSE ""

\* endStream returning to Idle only when the finish request succeeded
endStream_stuck(rc, body) ==
  /\ Called("endStream")
  /\ IF m_state # "Streaming"
       THEN /\ ret' = FALSE
            /\ lastReq' = NoRequest
            /\ UNCHANGED <<m_state, finalText, sent, accepted>>
       ELSE /\ lastReq' = [made |-> TRUE, method |-> "GET",
                           url |-> m_endpoint \o "/stt/finish",
                           bytes |-> 0, rc |-> rc, body |-> body]
            /\ sent' = Append(sent, <<"GET", m_endpoint \o "/stt/finish">>)
            /\ accepted' = accepted + 1
            /\ finalText' = endStreamText(rc, body)
            /\ m_state' = IF rc = HTTP_OK THEN "Idle" ELSE m_state
            /\ ret' = ~isEmpty(finalText')
  /\ UNCHANGED m_endpoint

\* endStream clearing the caller's text before its state check
endStream_clearsFirst(rc, body) ==
  /\ Called("endStream")
  /\ IF m_state # "Streaming"
       THEN /\ ret' = FALSE
            /\ lastReq' = NoRequest
            /\ finalText' = ""
            /\ UNCHANGED <<m_state, sent, accepted>>
       ELSE /\ lastReq' = [made |-> TRUE, method |-> "GET",
                           url |-> m_endpoint \o "/stt/finish",
                           bytes |-> 0, rc |-> rc, body |-> body]
            /\ sent' = Append(sent, <<"GET", m_endpoint \o "/stt/finish">>)
            /\ accepted' = accepted + 1
            /\ finalText' = endStreamText(rc, body)
            /\ m_state' = "Idle"
            /\ ret' = ~isEmpty(finalText')
  /\ UNCHANGED m_endpoint

\* endStream reporting the status of the finish request as its result
endStream_returnsStatus(rc, body) ==
  /\ Called("endStream")
  /\ IF m_state # "Streaming"
       THEN /\ ret' = FALSE
            /\ lastReq' = NoRequest
            /\ UNCHANGED <<m_state, finalText, sent, accepted>>
       ELSE /\ lastReq' = [made |-> TRUE, method |-> "GET",
                           url |-> m_endpoint \o "/stt/finish",
                           bytes |-> 0, rc |-> rc, body |-> body]
            /\ sent' = Append(sent, <<"GET", m_endpoint \o "/stt/finish">>)
            /\ accepted' = accepted + 1
            /\ finalText' = endStreamText(rc, body)
            /\ m_state' = "Idle"
            /\ ret' = (rc = HTTP_OK)
  /\ UNCHANGED m_endpoint

\* bool STTClient::endStream(String &finalText)
endStream(rc, body) ==
  /\ Called("endStream")
  /\ IF m_state # "Streaming"
       THEN /\ ret' = FALSE
            /\ lastReq' = NoRequest
            /\ UNCHANGED <<m_state, finalText, sent, accepted>>
       ELSE /\ lastReq' = [made |-> TRUE, method |-> "GET",
                           url |-> m_endpoint \o "/stt/finish",
                           bytes |-> 0, rc |-> rc, body |-> body]
            /\ sent' = Append(sent, <<"GET", m_endpoint \o "/stt/finish">>)
            /\ accepted' = accepted + 1
            /\ finalText' = endStreamText(rc, body)
            /\ m_state' = "Idle"
            /\ ret' = ~isEmpty(finalText')
  /\ UNCHANGED m_endpoint

SttBegin ==
  \E e \in Endpoints :
    begin(e) /\ UNCHANGED <<clsVars, audioVars, ttsVars>>
SttBeginStream == beginStream /\ UNCHANGED <<clsVars, audioVars, ttsVars>>
SttPushAudio ==
  \E count \in BufCounts, rc \in ReturnCodes :
    pushAudio(count, rc) /\ UNCHANGED <<clsVars, audioVars, ttsVars>>
SttEndStream ==
  \E rc \in ReturnCodes, body \in Bodies :
    endStream(rc, body) /\ UNCHANGED <<clsVars, audioVars, ttsVars>>

ClsIdle ==
  /\ raw = << >>
  /\ best = [category |-> "unknown", confidence |-> <<0, 1>>]
  /\ cpc = "ready"
  /\ reply = ""

\* the audio layer before AudioIO::begin
AudioIdle ==
  /\ g_outputEnabled = TRUE
  /\ i2sLog = << >>
  /\ audioRet = FALSE
  /\ audioOp = "none"
  /\ audioCalls = 0
  /\ bufCount = 0
  /\ playCalls = << >>
  /\ i2sWritten = << >>

\* the TTS client before TTSClient::begin
TtsIdle ==
  /\ tts_endpoint = ""
  /\ tpc = "idle"
  /\ ttsText = << >>
  /\ postBody = << >>
  /\ trc = 0
  /\ tret = FALSE
  /\ connOpen = FALSE
  /\ polls = 0
  /\ lastAvail = -1
  /\ bytesRead = 0
  /\ sleeps = 0

Init == SttInit /\ ClsIdle /\ AudioIdle /\ TtsIdle

Next ==
  \/ SttBegin
  \/ SttBeginStream
  \/ SttPushAudio
  \/ SttEndStream

Spec == Init /\ [][Next]_vars

TypeOK ==
  /\ m_state \in STTState
  /\ m_endpoint \in Endpoints \cup {""}
  /\ finalText \in Bodies \cup CallerTexts
  /\ ret \in BOOLEAN
  /\ calls \in 0..MaxCalls
  /\ accepted \in 0..MaxCalls

(***************************************************************************)
(* AdmissionModel (src/code/ml_model.h, src/code/ml_model.cpp).  A String  *)
(* is a sequence of one-character strings; a float score is the fraction   *)
(* <<hits, count>> it was computed from.                                   *)
(***************************************************************************)

\* static const char *REQ_WORDS[]
REQ_WORDS ==
  <<<<"r", "e", "q", "u", "i", "r", "e", "m", "e", "n", "t">>,
    <<"e", "l", "i", "g", "i", "b", "i", "l", "i", "t", "y">>,
    <<"c", "r", "i", "t", "e", "r", "i", "a">>>>

\* static const char *DEADLINE_WORDS[]
DEADLINE_WORDS ==
  <<<<"d", "e", "a", "d", "l", "i", "n", "e">>,
    <<"l", "a", "s", "t", " ", "d", "a", "t", "e">>,
    <<"t", "i", "m", "e", "l", "i", "n", "e">>>>

\* static const char *FEE_WORDS[]
FEE_WORDS ==
  <<<<"f", "e", "e">>,
    <<"c", "o", "s", "t">>,
    <<"p", "a", "y", "m", "e", "n", "t">>,
    <<"c", "h", "a", "r", "g", "e">>>>

\* static const char *PROCESS_WORDS[]
PROCESS_WORDS ==
  <<<<"a", "p", "p", "l", "y">>,
    <<"a", "p", "p", "l", "i", "c", "a", "t", "i", "o", "n">>,
    <<"p", "r", "o", "c", "e", "s", "s">>,
    <<"o", "n", "l", "i", "n", "e">>>>

\* static const char *DOC_WORDS[]
DOC_WORDS ==
  <<<<"d", "o", "c", "u", "m", "e", "n", "t">>,
    <<"d", "o", "c", "u", "m", "e", "n", "t", "s">>,
    <<"p", "a", "p", "e", "r", "s">>,
    <<"c", "e", "r", "t", "i", "f", "i", "c", "a", "t", "e", "s">>>>

\* static const char *GREETING_WORDS[]
GREETING_WORDS ==
  <<<<"h", "e", "l", "l", "o">>,
    <<"h", "i">>,
    <<"h", "e", "y">>>>

\* the letters String::toLowerCase changes
UpperToLower ==
  ("A" :> "a") @@ ("B" :> "b") @@ ("C" :> "c") @@ ("D" :> "d") @@
  ("E" :> "e") @@ ("F" :> "f") @@ ("G" :> "g") @@ ("H" :> "h") @@
  ("I" :> "i") @@ ("J" :> "j") @@ ("K" :> "k") @@ ("L" :> "l") @@
  ("M" :> "m") @@ ("N" :> "n") @@ ("O" :> "o") @@ ("P" :> "p") @@
  ("Q" :> "q") @@ ("R" :> "r") @@ ("S" :> "s") @@ ("T" :> "t") @@
  ("U" :> "u") @@ ("V" :> "v") @@ ("W" :> "w") @@ ("X" :> "x") @@
  ("Y" :> "y") @@ ("Z" :> "z")

\* String::toLowerCase
toLowerCase(str) ==
  [i \in 1..Len(str) |->
     IF str[i] \in DOMAIN UpperToLower THEN UpperToLower[str[i]] ELSE str[i]]

\* String AdmissionModel::normalize(const String &in) const
normalize(in) == toLowerCase(in)

\* String::indexOf: the 0-based position of the first occurrence, or -1
indexOf(text, word) ==
  LET starts == {i \in 1..(Len(text) - Len(word) + 1) :
                   /\ text[i] = word[1]
                   /\ \A j \in 2..Len(word) : text[i + j - 1] = word[j]}
  IN  IF starts = {} THEN -1
      ELSE (CHOOSE i \in starts : \A j \in starts : i <= j) - 1

\* the keyword test that takes the value of indexOf as a truth value
isHit_truthy(text, word) == indexOf(text, word) # 0

\* the keyword test that misses a keyword at the start of the text
isHit_positive(text, word) == indexOf(text, word) > 0

\* the keyword test of scoreCategory: text.indexOf(words[i]) >= 0
isHit(text, word) == indexOf(text, word) >= 0

RECURSIVE countHits_firstOnly(_, _, _)
\* the loop of scoreCategory leaving at the first keyword found
countHits_firstOnly(text, words, i) ==
  IF i > Len(words) THEN 0
  ELSE IF isHit(text, words[i]) THEN 1
  ELSE countHits_firstOnly(text, words, i + 1)

RECURSIVE countHits(_, _, _)
\* the loop of scoreCategory over words[i .. count-1]
countHits(text, words, i) ==
  IF i > Len(words) THEN 0
  ELSE (IF isHit(text, words[i]) THEN 1 ELSE 0) + countHits(text, words, i + 1)

\* static float scoreCategory(const String &text, const char **words, size_t count)
scoreCategory(text, words) ==
  IF Len(words) = 0 THEN <<0, 1>>
  ELSE <<countHits(text, words, 1), Len(words)>>

\* a < b on the floats the fractions stand for
FloatLess(a, b) == a[1] * b[2] < b[1] * a[2]

\* const Cat cats[]
cats ==
  << [name |-> "requirements", words |-> REQ_WORDS],
     [name |-> "deadline", words |-> DEADLINE_WORDS],
     [name |-> "fee", words |-> FEE_WORDS],
     [name |-> "process", words |-> PROCESS_WORDS],
     [name |-> "documents", words |-> DOC_WORDS],
     [name |-> "greeting", words |-> GREETING_WORDS] >>

\* the confidence floor 0.15f as a fraction
ThresholdNum == 15
ThresholdDen == 100

\* replacing the best category on an equal score too
replaces_orEqual(s, confidence) == ~FloatLess(s, confidence)

\* the test of the scan: s > best.confidence
replaces(s, confidence) == FloatLess(confidence, s)

RECURSIVE scan(_, _, _)
\* for (auto &c : cats) from cats[i] on, with the best result so far
scan(text, i, b) ==
  IF i > Len(cats) THEN b
  ELSE LET s == scoreCategory(text, cats[i].words)
       IN  IF replaces(s, b.confidence)
             THEN scan(text, i + 1, [category |-> cats[i].name, confidence |-> s])
             ELSE scan(text, i + 1, b)

\* classify demoting below CONFIDENCE_THRESHOLD (0.7) of config.h
classify_floor70(rawText) ==
  LET text == normalize(rawText)
      b == scan(text, 1, [category |-> "unknown", confidence |-> <<0, 1>>])
  IN  IF FloatLess(b.confidence, <<70, 100>>)
        THEN [b EXCEPT !.category = "unknown"]
        ELSE b

\* classify demoting below 0.3
classify_floor30(rawText) ==
  LET text == normalize(rawText)
      b == scan(text, 1, [category |-> "unknown", confidence |-> <<0, 1>>])
  IN  IF FloatLess(b.confidence, <<30, 100>>)
        THEN [b EXCEPT !.category = "unknown"]
        ELSE b

\* ClassificationResult AdmissionModel::classify(const String &raw)
classify(rawText) ==
  LET text == normalize(rawText)
      b == scan(text, 1, [category |-> "unknown", confidence |-> <<0, 1>>])
  IN  IF FloatLess(b.confidence, <<ThresholdNum, ThresholdDen>>)
        THEN [b EXCEPT !.category = "unknown"]
        ELSE b

\* phrases the input texts are built from
Vocabulary ==
  {<<"R", "e", "q", "u", "i", "r", "e", "m", "e", "n", "t">>,
   <<"e", "l", "i", "g", "i", "b", "i", "l", "i", "t", "y", " ", "c",
     "r", "i", "t", "e", "r", "i", "a">>,
   <<"l", "a", "s", "t">>,
   <<"d", "a", "t", "e", " ", "d", "e", "a", "d", "l", "i", "n", "e",
     " ", "t", "i", "m", "e", "l", "i", "n", "e">>,
   <<"f", "e", "e">>,
   <<"c", "o", "s", "t", " ", "p", "a", "y", "m", "e", "n", "t", " ",
     "c", "h", "a", "r", "g", "e">>,
   <<"a", "p", "p", "l", "y">>,
   <<"D", "o", "c", "u", "m", "e", "n", "t", "s">>,
   <<"H", "E", "L", "L", "O", " ", "h", "i", " ", "h", "e", "y">>,
   <<"t", "h", "i", "s">>,
   <<"a", "s", "d", "k", "j", "a", "s", "d">>}

RECURSIVE Join(_)
\* the phrases of ws joined by single spaces
Join(ws) ==
  IF Len(ws) = 0 THEN << >>
  ELSE IF Len(ws) = 1 THEN ws[1]
  ELSE ws[1] \o <<" ">> \o Join(Tail(ws))

\* "Hello, what documents do I need?"
HelloText ==
  <<"H", "e", "l", "l", "o", ",", " ", "w", "h", "a", "t", " ", "d",
    "o", "c", "u", "m", "e", "n", "t", "s", " ", "d", "o", " ", "I",
    " ", "n", "e", "e", "d", "?">>

\* "what is the deadline"
DeadlineText ==
  <<"w", "h", "a", "t", " ", "i", "s", " ", "t", "h", "e", " ", "d",
    "e", "a", "d", "l", "i", "n", "e">>

\* the example utterances
Examples == {HelloText, DeadlineText}

\* the input texts: the examples and up to MaxWords phrases
Texts ==
  {Join(ws) : ws \in UNION {[1..n -> Vocabulary] : n \in 0..MaxWords}}
    \cup Examples

\* the reply of faqResponseForCategory when no category matches
FallbackReply ==
  "I'm sorry, I didn't understand your question. Please ask about admissions, requirements, deadlines, fees, or application process."

\* the reply of faqResponseForCategory for "deadline"
DeadlineReply == "The admission deadline is March 31st, 2026."

\* faqResponseForCategory without its "deadline" branch
faqResponseForCategory_noDeadline(cat) ==
  IF cat = "requirements"
    THEN "You need to have completed 12th grade with minimum 75% marks and pass the entrance exam."
  ELSE IF cat = "fee"
    THEN "The application fee is $50 for domestic students and $100 for international students."
  ELSE IF cat = "process"
    THEN "Visit our official website, create an account, fill the application form, and submit required documents."
  ELSE IF cat = "documents"
    THEN "You need transcripts, ID proof, passport photo, and entrance exam scorecard."
  ELSE IF cat = "greeting"
    THEN "Hello! I'm your admission assistant. How can I help you today?"
  ELSE FallbackReply

\* String faqResponseForCategory(const String &cat)
faqResponseForCategory(cat) ==
  IF cat = "requirements"
    THEN "You need to have completed 12th grade with minimum 75% marks and pass the entrance exam."
  ELSE IF cat = "deadline"
    THEN DeadlineReply
  ELSE IF cat = "fee"
    THEN "The application fee is $50 for domestic students and $100 for international students."
  ELSE IF cat = "process"
    THEN "Visit our official website, create an account, fill the application form, and submit required documents."
  ELSE IF cat = "documents"
    THEN "You need transcripts, ID proof, passport photo, and entrance exam scorecard."
  ELSE IF cat = "greeting"
    THEN "Hello! I'm your admission assistant. How can I help you today?"
  ELSE FallbackReply

\* the caller hands one utterance to classify and keeps the result
Classify ==
  /\ cpc = "ready"
  /\ best' = classify(raw)
  /\ cpc' = "done"
  /\ UNCHANGED <<raw, reply>>
  /\ UNCHANGED <<sttVars, audioVars, ttsVars>>

\* the caller looks up the reply for the category classify returned
Respond ==
  /\ cpc = "done"
  /\ reply' = faqResponseForCategory(best.category)
  /\ cpc' = "replied"
  /\ UNCHANGED <<raw, best>>
  /\ UNCHANGED <<sttVars, audioVars, ttsVars>>

ClsInit ==
  /\ SttInit
  /\ finalText = ""
  /\ raw \in Texts
  /\ best = [category |-> "unknown", confidence |-> <<0, 1>>]
  /\ cpc = "ready"
  /\ reply = ""
  /\ AudioIdle
  /\ TtsIdle

ClsNext ==
  \/ Classify
  \/ Respond

ClassifySpec == ClsInit /\ [][ClsNext]_vars

(***************************************************************************)
(* AudioIO (src/esp32/audio_io.h, src/esp32/audio_io.cpp, ESP32 branch)    *)
(***************************************************************************)

\* the four I2S configuration calls of AudioIO::begin, in program order, with
\* the results r[1..4] the driver gives them (TRUE for ESP_OK)
I2SSteps(r) ==
  << [call |-> "i2s_driver_install", port |-> "I2S_NUM_0", ok |-> r[1]],
     [call |-> "i2s_set_pin", port |-> "I2S_NUM_0", ok |-> r[2]],
     [call |-> "i2s_driver_install", port |-> "I2S_NUM_1", ok |-> r[3]],
     [call |-> "i2s_set_pin", port |-> "I2S_NUM_1", ok |-> r[4]] >>

\* the results the driver may give the four calls
DriverResults == [1..4 -> BOOLEAN]

\* AudioIO::begin configuring the playback channel whatever enableOutput is
beginOutcome_alwaysOutput(enableOutput, r) ==
  LET st == I2SSteps(r)
  IN  IF ~r[1] THEN [steps |-> SubSeq(st, 1, 1), ret |-> FALSE]
      ELSE IF ~r[2] THEN [steps |-> SubSeq(st, 1, 2), ret |-> FALSE]
      ELSE IF ~r[3] THEN [steps |-> SubSeq(st, 1, 3), ret |-> FALSE]
      ELSE IF ~r[4] THEN [steps |-> SubSeq(st, 1, 4), ret |-> FALSE]
      ELSE [steps |-> SubSeq(st, 1, 4), ret |-> TRUE]

\* the calls AudioIO::begin makes and the value it returns
beginOutcome(enableOutput, r) ==
  LET st == I2SSteps(r)
  IN  IF ~r[1] THEN [steps |-> SubSeq(st, 1, 1), ret |-> FALSE]
      ELSE IF ~r[2] THEN [steps |-> SubSeq(st, 1, 2), ret |-> FALSE]
      ELSE IF ~enableOutput THEN [steps |-> SubSeq(st, 1, 2), ret |-> TRUE]
      ELSE IF ~r[3] THEN [steps |-> SubSeq(st, 1, 3), ret |-> FALSE]
      ELSE IF ~r[4] THEN [steps |-> SubSeq(st, 1, 4), ret |-> FALSE]
      ELSE [steps |-> SubSeq(st, 1, 4), ret |-> TRUE]

\* bookkeeping of a call the sketch makes on AudioIO
AudioCalled(name) ==
  /\ audioCalls < MaxAudioCalls
  /\ audioCalls' = audioCalls + 1
  /\ audioOp' = name

\* bool AudioIO::begin(bool enableOutput)
AudioIO_begin ==
  \E enableOutput \in BOOLEAN, r \in DriverResults :
    /\ AudioCalled("begin")
    /\ g_outputEnabled' = enableOutput
    /\ i2sLog' = beginOutcome(enableOutput, r).steps
    /\ audioRet' = beginOutcome(enableOutput, r).ret
    /\ UNCHANGED <<bufCount, playCalls, i2sWritten>>
    /\ UNCHANGED <<sttVars, clsVars, ttsVars>>

\* byte counts i2s_read may deliver within the timeout
I2SReadSizes == {0, 2, AUDIO_FRAME_SAMPLES * SizeofSample}

\* size_t AudioIO::readSamples(AudioBuffer &buf, uint32_t timeoutMs)
AudioIO_readSamples ==
  \E got \in I2SReadSizes :
    /\ AudioCalled("readSamples")
    /\ bufCount' = got \div SizeofSample
    /\ UNCHANGED <<g_outputEnabled, i2sLog, audioRet, playCalls, i2sWritten>>
    /\ UNCHANGED <<sttVars, clsVars, ttsVars>>

\* void AudioIO::playSamples(const int16_t *data, size_t count)
playSamples(count) ==
  /\ playCalls' = Append(playCalls, count)
  /\ i2sWritten' = IF ~g_outputEnabled THEN i2sWritten
                   ELSE Append(i2sWritten, count)

\* the sketch plays the captured frame back
AudioIO_playSamples ==
  /\ AudioCalled("playSamples")
  /\ playSamples(bufCount)
  /\ UNCHANGED <<g_outputEnabled, i2sLog, audioRet, bufCount>>
  /\ UNCHANGED <<sttVars, clsVars, ttsVars>>

AudioNext ==
  \/ AudioIO_begin
  \/ AudioIO_readSamples
  \/ AudioIO_playSamples

AudioSpec == Init /\ [][AudioNext]_vars

(***************************************************************************)
(* TTSClient (src/esp32/tts_client.h, src/esp32/tts_client.cpp, ESP32      *)
(* branch).  requestAndPlay blocks its caller; its POST and each iteration *)
(* of its playback loop are one step each, and the server closing the      *)
(* connection is a step of the environment.                                *)
(***************************************************************************)

\* const size_t CHUNK = 512
CHUNK == 512

\* the texts handed to requestAndPlay: plain, with a double quote, ending in
\* a backslash, and a backslash followed by a double quote
TtsTexts ==
  { <<"h", "i">>,
    <<"a", "\"", "b">>,
    <<"c", "\\">>,
    <<"\\", "\"">> }

\* the literal String("{\"text\":\"")
BodyPrefix == <<"{", "\"", "t", "e", "x", "t", "\"", ":", "\"">>

\* the literal "\"}"
BodySuffix == <<"\"", "}">>

\* String body = String("{\"text\":\"") + text + "\"}"
ttsBody(text) == BodyPrefix \o text \o BodySuffix

\* requestAndPlay going on after any reply that carries an HTTP status
ttsAccepted_positive(rc) == rc > 0

\* the test that lets requestAndPlay go on to playback: !(rc != 200)
ttsAccepted(rc) == rc = HTTP_OK

\* what stream->available() may report
Avails == {0, 3, CHUNK * SizeofSample, 1500}

\* min(avail, CHUNK * sizeof(int16_t))
toReadOf(avail) ==
  IF avail < CHUNK * SizeofSample THEN avail ELSE CHUNK * SizeofSample

\* what stream->readBytes may return when asked for toRead bytes
ReadResults(toRead) == {-1, 0, toRead}

\* an empty poll leaving the loop
emptyPollNext_returns == "returned"

\* where requestAndPlay is after delay(5); continue
emptyPollNext == "loop"

\* bool TTSClient::begin(const String &endpointUrl)
TTSClient_begin ==
  \E e \in Endpoints :
    /\ tpc = "idle"
    /\ tts_endpoint' = e
    /\ UNCHANGED <<tpc, ttsText, postBody, trc, tret, connOpen, polls,
                   lastAvail, bytesRead, sleeps>>
    /\ UNCHANGED <<sttVars, clsVars, audioVars>>

\* requestAndPlay up to the test of the POST's return code
RequestAndPlay_post ==
  \E text \in TtsTexts, rc \in ReturnCodes :
    /\ tpc = "idle"
    /\ ttsText' = text
    /\ postBody' = ttsBody(text)
    /\ trc' = rc
    /\ IF ttsAccepted(rc)
         THEN /\ tpc' = "loop"
              /\ connOpen' = TRUE
              /\ UNCHANGED tret
         ELSE /\ tpc' = "returned"
              /\ connOpen' = FALSE
              /\ tret' = FALSE
    /\ UNCHANGED <<tts_endpoint, polls, lastAvail, bytesRead, sleeps>>
    /\ UNCHANGED <<sttVars, clsVars, audioVars>>

\* one evaluation of while (http.connected()) and the iteration it starts
RequestAndPlay_poll ==
  /\ tpc = "loop"
  /\ IF ~connOpen
       THEN /\ tpc' = "returned"
            /\ tret' = TRUE
            /\ UNCHANGED <<polls, lastAvail, bytesRead, sleeps>>
            /\ UNCHANGED audioVars
       ELSE /\ polls < MaxPolls
            /\ polls' = polls + 1
            /\ \E avail \in Avails :
                 /\ lastAvail' = avail
                 /\ IF avail = 0
                      THEN /\ sleeps' = sleeps + 1
                           /\ tpc' = emptyPollNext
                           /\ tret' = IF emptyPollNext = "returned"
                                        THEN TRUE ELSE tret
                           /\ UNCHANGED bytesRead
                           /\ UNCHANGED audioVars
                      ELSE \E readBytes \in ReadResults(toReadOf(avail)) :
                             IF readBytes <= 0
                               THEN /\ tpc' = "returned"
                                    /\ tret' = TRUE
                                    /\ UNCHANGED <<bytesRead, sleeps>>
                                    /\ UNCHANGED audioVars
                               ELSE /\ bytesRead' = bytesRead + readBytes
                                    /\ playSamples(readBytes \div SizeofSample)
                                    /\ UNCHANGED <<tpc, tret, sleeps>>
                                    /\ UNCHANGED <<g_outputEnabled, i2sLog,
                                                   audioRet, audioOp,
                                                   audioCalls, bufCount>>
  /\ UNCHANGED <<tts_endpoint, ttsText, postBody, trc, connOpen>>
  /\ UNCHANGED <<sttVars, clsVars>>

\* the server closes the connection while the response is being played
CloseConnection ==
  /\ tpc = "loop"
  /\ connOpen
  /\ connOpen' = FALSE
  /\ UNCHANGED <<tts_endpoint, tpc, ttsText, postBody, trc, tret, polls,
                 lastAvail, bytesRead, sleeps>>
  /\ UNCHANGED <<sttVars, clsVars, audioVars>>

TtsNext ==
  \/ TTSClient_begin
  \/ RequestAndPlay_post
  \/ RequestAndPlay_poll
  \/ CloseConnection

TtsSpec == Init /\ [][TtsNext]_vars

\* requestAndPlay runs on the sketch's only thread, so a started call keeps
\* executing its loop
TtsLiveSpec == Init /\ [][TtsNext]_vars /\ WF_vars(RequestAndPlay_poll)

(***************************************************************************)
(* Properties of the STTClient session.                                    *)
(***************************************************************************)

\* the step is a call of the named operation
IsCall(name) == calls' = calls + 1 /\ op' = name

\* C1: a pushAudio call made while the state is not Streaming returns false,
\* leaves the state Idle and sends no chunk request.
C1_PushRejectedOutsideStreaming ==
  [][(IsCall("pushAudio") /\ m_state # "Streaming") =>
       /\ ret' = FALSE
       /\ m_state' = "Idle"
       /\ sent' = sent
       /\ ~lastReq'.made]_vars

\* a pushAudio was rejected after a stream had been opened and closed
C1_Witness ==
  /\ op = "pushAudio"
  /\ m_state = "Idle"
  /\ ret = FALSE
  /\ ~lastReq.made
  /\ Len(sent) > 0
  /\ sent[Len(sent)][1] = "GET"

\* C2: beginStream returns true and moves to Streaming only when the state is
\* Idle; called in Streaming it returns false and the state stays Streaming.
C2_BeginStreamOnlyFromIdle ==
  [][IsCall("beginStream") =>
       /\ (ret' = TRUE) <=> (m_state = "Idle")
       /\ (m_state = "Idle" => m_state' = "Streaming")
       /\ (m_state = "Streaming" => ret' = FALSE /\ m_state' = "Streaming")]_vars

\* a beginStream was refused while a stream was open
C2_Witness ==
  /\ op = "beginStream"
  /\ ret = FALSE
  /\ m_state = "Streaming"

\* C3: every endStream call made in Streaming leaves the state Idle, whatever
\* the outcome of the finish request.
C3_EndStreamAlwaysIdle ==
  [][(IsCall("endStream") /\ m_state = "Streaming") =>
       /\ lastReq'.made
       /\ lastReq'.rc \in ReturnCodes
       /\ m_state' = "Idle"]_vars

\* an endStream whose finish request failed at the transport left Idle
C3_Witness ==
  /\ op = "endStream"
  /\ lastReq.made
  /\ lastReq.rc < 0
  /\ m_state = "Idle"

\* C4: an endStream call made in Streaming hands back exactly the reply body
\* when the status is 200, and the empty text with result false on any other
\* outcome, whatever the text variable held before.
C4_EndStreamText ==
  [][(IsCall("endStream") /\ m_state = "Streaming") =>
       /\ (lastReq'.rc = HTTP_OK => finalText' = lastReq'.body)
       /\ (lastReq'.rc # HTTP_OK => finalText' = "" /\ ret' = FALSE)]_vars

\* a non-200 reply carrying a body cleared a non-empty caller text
C4_Witness ==
  /\ op = "endStream"
  /\ lastReq.made
  /\ lastReq.rc = 404
  /\ lastReq.body # ""
  /\ textBefore # ""
  /\ finalText = ""
  /\ ret = FALSE

\* C5: a pushAudio call made in Streaming returns true only if the transport
\* reported success (a positive return code), and the state is still Streaming
\* afterwards whether the upload succeeded or failed.
C5_PushResultAndState ==
  [][(IsCall("pushAudio") /\ m_state = "Streaming") =>
       /\ lastReq'.made
       /\ (ret' = TRUE => lastReq'.rc > 0)
       /\ m_state' = "Streaming"]_vars

\* a chunk upload failed at the transport and the session is still Streaming
C5_Witness ==
  /\ op = "pushAudio"
  /\ lastReq.made
  /\ lastReq.rc < 0
  /\ ret = FALSE
  /\ m_state = "Streaming"

\* the call is issued in the wrong state
WrongState ==
  \/ IsCall("beginStream") /\ m_state = "Streaming"
  \/ IsCall("pushAudio") /\ m_state = "Idle"
  \/ IsCall("endStream") /\ m_state = "Idle"

\* C6: every call issued in the wrong state returns false and changes neither
\* the session state, the endpoint nor the caller's text, and sends nothing.
C6_WrongStateNoOp ==
  [][WrongState =>
       /\ ret' = FALSE
       /\ m_state' = m_state
       /\ m_endpoint' = m_endpoint
       /\ finalText' = finalText
       /\ sent' = sent
       /\ ~lastReq'.made]_vars

\* an endStream was rejected in Idle while the caller's text was non-empty
C6_Witness ==
  /\ op = "endStream"
  /\ ~lastReq.made
  /\ ret = FALSE
  /\ m_state = "Idle"
  /\ m_endpoint # ""
  /\ finalText # ""
  /\ finalText = textBefore

\* the request an accepted call sends
ExpectedRequest ==
  IF op' = "pushAudio" THEN <<"POST", m_endpoint \o "/stt/chunk">>
                       ELSE <<"GET", m_endpoint \o "/stt/finish">>

\* C7: each pushAudio or endStream accepted in Streaming sends exactly one
\* request (POST /stt/chunk, GET /stt/finish) whatever its outcome, every
\* other call sends none, and the number of requests sent equals the number
\* of accepted pushAudio and endStream calls.
C7_OneRequestPerAcceptedCall ==
  [][calls' = calls + 1 =>
       /\ IF op' \in {"pushAudio", "endStream"} /\ m_state = "Streaming"
            THEN sent' = Append(sent, ExpectedRequest)
            ELSE sent' = sent
       /\ Len(sent') = accepted']_vars

\* two requests were sent, the last one failed, and some call sent none
C7_Witness ==
  /\ Len(sent) >= 2
  /\ Len(sent) = accepted
  /\ calls > accepted
  /\ lastReq.made
  /\ lastReq.rc < 0

(***************************************************************************)
(* Properties of classify.  Occurrence of a keyword is stated directly on  *)
(* the lowercased text, not through indexOf.                               *)
(***************************************************************************)

\* word occurs as a substring of text
Occurs(word, text) ==
  \E i \in 1..(Len(text) - Len(word) + 1) :
    /\ text[i] = word[1]
    /\ \A j \in 2..Len(word) : text[i + j - 1] = word[j]

\* the keywords of category c that occur in text
Present(c, text) ==
  {k \in 1..Len(cats[c].words) : Occurs(cats[c].words[k], text)}

Categories == 1..Len(cats)

\* C8: a text whose lowercased form contains no keyword of any category is
\* classified "unknown" with confidence 0.
C8_NoKeywordUnknown ==
  (cpc = "done" /\ \A c \in Categories : Present(c, toLowerCase(raw)) = {}) =>
    /\ best.category = "unknown"
    /\ best.confidence[1] = 0

\* "asdkjasd" was classified
C8_Witness ==
  /\ cpc = "done"
  /\ raw = <<"a", "s", "d", "k", "j", "a", "s", "d">>
  /\ best.category = "unknown"

\* the keywords of each category that occur in text
PresentIn(text) == [c \in Categories |-> Present(c, text)]

\* in p, every keyword of category c occurs and no keyword of another one
OnlyFull(c, p) ==
  /\ p[c] = 1..Len(cats[c].words)
  /\ \A d \in Categories \ {c} : p[d] = {}

\* C9: a text that (case-insensitively) contains all keywords of exactly one
\* category and no keyword of any other is classified as that category with
\* confidence 1.0.
C9_FullCategory ==
  cpc = "done" =>
    LET p == PresentIn(toLowerCase(raw))
    IN  \A c \in Categories :
          OnlyFull(c, p) =>
            /\ best.category = cats[c].name
            /\ best.confidence[1] = best.confidence[2]

\* a text holding exactly the four fee keywords was classified
C9_Witness ==
  /\ cpc = "done"
  /\ OnlyFull(3, PresentIn(toLowerCase(raw)))
  /\ best.category = "fee"

\* the fraction of each category's keywords occurring in text
Fractions(text) ==
  [c \in Categories |-> <<Cardinality(Present(c, text)), Len(cats[c].words)>>]

\* the categories whose fraction is the highest one, when that is not zero
Tied(text) ==
  LET f == Fractions(text)
  IN  {c \in Categories :
         /\ f[c][1] > 0
         /\ \A d \in Categories : f[d][1] * f[c][2] <= f[c][1] * f[d][2]}

\* C10: when two or more categories tie for the highest non-zero score,
\* classify returns the one earliest in the order requirements, deadline,
\* fee, process, documents, greeting.
C10_TieBreakEarliest ==
  cpc = "done" =>
    LET tied == Tied(toLowerCase(raw))
    IN  Cardinality(tied) >= 2 =>
          \E c \in tied :
            /\ \A d \in tied : c <= d
            /\ best.category = cats[c].name

\* fee (4 of 4) and greeting (3 of 3) tied at 1.0 and fee was returned
C10_Witness ==
  /\ cpc = "done"
  /\ Tied(toLowerCase(raw)) = {3, 6}
  /\ best.category = "fee"
  /\ best.confidence = <<4, 4>>

\* the classifier has returned its result for the current text
Classified == cpc \in {"done", "replied"}

\* C11 as stated: "Hello, what documents do I need?" scores greeting 1 of 3
\* and documents 1 of 4, and classify returns greeting with confidence 1/3.
C11_HelloIsGreeting ==
  (Classified /\ raw = HelloText) =>
    LET f == Fractions(toLowerCase(raw))
    IN  /\ f[6] = <<1, 3>>
        /\ f[5] = <<1, 4>>
        /\ best = [category |-> "greeting", confidence |-> <<1, 3>>]

\* C11 (amended): "Hello, what documents do I need?" scores greeting 1 of 3
\* and documents 2 of 4 (both "document" and "documents" occur), every other
\* category 0, and classify returns documents with confidence 2/4.
C11_HelloIsDocuments ==
  (Classified /\ raw = HelloText) =>
    LET f == Fractions(toLowerCase(raw))
    IN  /\ f[6] = <<1, 3>>
        /\ f[5] = <<2, 4>>
        /\ \A c \in 1..4 : f[c][1] = 0
        /\ best = [category |-> "documents", confidence |-> <<2, 4>>]

\* the greeting example was classified
C11_Witness ==
  /\ cpc = "done"
  /\ raw = HelloText
  /\ best.category = "documents"

\* C12: "what is the deadline" is classified deadline with confidence 1/3,
\* and the reply looked up for that category is the fixed deadline reply, not
\* the fallback reply.
C12_DeadlineExample ==
  (raw = DeadlineText) =>
    /\ Classified => best = [category |-> "deadline", confidence |-> <<1, 3>>]
    /\ cpc = "replied" =>
         /\ reply = "The admission deadline is March 31st, 2026."
         /\ reply # FallbackReply

\* the deadline example was classified and answered
C12_Witness ==
  /\ cpc = "replied"
  /\ raw = DeadlineText
  /\ best.category = "deadline"
  /\ reply # ""

\* the highest fraction of f, as one of its entries
MaxFraction(f) ==
  f[CHOOSE c \in Categories :
      \A d \in Categories : f[d][1] * f[c][2] <= f[c][1] * f[d][2]]

\* the fraction q is at least the confidence floor 0.15
AtLeastFloor(q) == q[1] * 100 >= 15 * q[2]

\* C13: the confidence reported is the highest of the six scores; the
\* category reported is a best-scoring category when that score is at least
\* 0.15 and "unknown" when it is below, the score still being reported.
C13_ThresholdRule ==
  cpc = "done" =>
    LET f == Fractions(toLowerCase(raw))
        m == MaxFraction(f)
    IN  /\ best.confidence[1] * m[2] = m[1] * best.confidence[2]
        /\ AtLeastFloor(m) =>
             \E c \in Categories :
               /\ best.category = cats[c].name
               /\ f[c][1] * m[2] = m[1] * f[c][2]
        /\ ~AtLeastFloor(m) => best.category = "unknown"

\* a text whose best score is 1/3 was classified and kept its category
C13_Witness ==
  /\ cpc = "done"
  /\ best.confidence = <<1, 3>>
  /\ best.category = "requirements"

\* C20: classify returns "unknown" exactly when no keyword of any category
\* occurs in the lowercased text; every non-zero score is at least 1/4 and so
\* at least the 0.15 floor, and the confidence reported with "unknown" is 0.
C20_UnknownIffNoKeyword ==
  cpc = "done" =>
    LET f == Fractions(toLowerCase(raw))
    IN  /\ (best.category = "unknown") <=> (\A c \in Categories : f[c][1] = 0)
        /\ \A c \in Categories :
             f[c][1] > 0 => (4 * f[c][1] >= f[c][2] /\ AtLeastFloor(f[c]))
        /\ best.category = "unknown" => best.confidence[1] = 0

\* a text matching a single keyword of a four-keyword category kept it
C20_Witness ==
  /\ cpc = "done"
  /\ best.confidence = <<1, 4>>
  /\ best.category = "fee"

\* C18: endStream called in Streaming returns true exactly when the text it
\* hands back is non-empty; a 200 reply with an empty body is reported as
\* false with empty text, and the state still becomes Idle.
C18_EndStreamResult ==
  [][(IsCall("endStream") /\ m_state = "Streaming") =>
       /\ (ret' = TRUE) <=> (finalText' # "")
       /\ (lastReq'.rc = HTTP_OK /\ lastReq'.body = "") =>
            (ret' = FALSE /\ finalText' = "" /\ m_state' = "Idle")]_vars

\* a finish request answered 200 with an empty body was reported as failed
C18_Witness ==
  /\ op = "endStream"
  /\ lastReq.made
  /\ lastReq.rc = HTTP_OK
  /\ lastReq.body = ""
  /\ ret = FALSE
  /\ finalText = ""
  /\ m_state = "Idle"

(***************************************************************************)
(* Properties of AudioIO::begin.                                           *)
(***************************************************************************)

\* the configuration calls begin has to make for a given enableOutput
RequiredSteps(enableOutput) ==
  IF enableOutput
    THEN << <<"i2s_driver_install", "I2S_NUM_0">>, <<"i2s_set_pin", "I2S_NUM_0">>,
            <<"i2s_driver_install", "I2S_NUM_1">>, <<"i2s_set_pin", "I2S_NUM_1">> >>
    ELSE << <<"i2s_driver_install", "I2S_NUM_0">>, <<"i2s_set_pin", "I2S_NUM_0">> >>

\* C17: AudioIO::begin returns true exactly when every step it has to perform
\* succeeded (capture install and pins always, playback install and pins only
\* with enableOutput); it stops at the first failing step and returns false,
\* and with enableOutput false it never configures the playback channel.
C17_BeginResult ==
  [][(audioCalls' = audioCalls + 1 /\ audioOp' = "begin") =>
       LET log == i2sLog'
           req == RequiredSteps(g_outputEnabled')
       IN  /\ Len(log) \in 1..Len(req)
           /\ \A i \in 1..Len(log) : <<log[i].call, log[i].port>> = req[i]
           /\ \A i \in 1..(Len(log) - 1) : log[i].ok
           /\ audioRet' <=> (Len(log) = Len(req) /\ \A i \in 1..Len(log) : log[i].ok)
           /\ ~audioRet' => ~log[Len(log)].ok
           /\ ~g_outputEnabled' => \A i \in 1..Len(log) : log[i].port # "I2S_NUM_1"]_vars

\* begin(false) succeeded after configuring the capture channel only
C17_Witness ==
  /\ audioOp = "begin"
  /\ ~g_outputEnabled
  /\ audioRet
  /\ Len(i2sLog) = 2

(***************************************************************************)
(* Properties of TTSClient::requestAndPlay.                                *)
(***************************************************************************)

\* C14: when the status of the synthesis request is not 200 (transport errors
\* included), requestAndPlay returns false and never calls playSamples.
C14_NoPlaybackOnFailure ==
  (tpc # "idle" /\ trc # 200) =>
    /\ tpc = "returned"
    /\ tret = FALSE
    /\ playCalls = << >>
    /\ bytesRead = 0

\* a synthesis request answered 404 made requestAndPlay return
C14_Witness ==
  /\ tpc = "returned"
  /\ trc = 404
  /\ tret = FALSE
  /\ playCalls = << >>

\* the step is an iteration of the playback loop that found no bytes
EmptyPollStep ==
  /\ tpc = "loop"
  /\ connOpen
  /\ polls' = polls + 1
  /\ lastAvail' = 0

\* C15: after a 200 reply, an iteration that finds the connection open and no
\* bytes available sleeps and stays in the loop without returning; when the
\* connection is found closed requestAndPlay returns true; and once the
\* connection has closed requestAndPlay does terminate, returning true,
\* whatever it has played, nothing included.
C15_PollUntilClosed ==
  /\ [][EmptyPollStep =>
          (tpc' = "loop" /\ sleeps' = sleeps + 1 /\ playCalls' = playCalls)]_vars
  /\ [][(tpc = "loop" /\ ~connOpen /\ tpc' # "loop") =>
          (tpc' = "returned" /\ tret' = TRUE)]_vars
  /\ (tpc = "loop" /\ ~connOpen) ~> (tpc = "returned" /\ tret = TRUE)

\* requestAndPlay returned true after sleeping on an empty poll and without
\* having received any audio
C15_Witness ==
  /\ tpc = "returned"
  /\ trc = 200
  /\ tret = TRUE
  /\ ~connOpen
  /\ sleeps > 0
  /\ lastAvail = 0
  /\ bytesRead = 0
  /\ playCalls = << >>

\* a failed result of the JSON reader
JsonFail == [ok |-> FALSE, text |-> << >>, next |-> 0]

RECURSIVE JsonString(_, _, _)
\* reads the JSON string whose first character after the opening quote is
\* s[i]: the decoded characters and the position after the closing quote
JsonString(s, i, acc) ==
  IF i > Len(s) THEN JsonFail
  ELSE IF s[i] = "\"" THEN [ok |-> TRUE, text |-> acc, next |-> i + 1]
  ELSE IF s[i] = "\\"
    THEN IF i + 1 <= Len(s) /\ s[i + 1] \in {"\"", "\\", "/"}
           THEN JsonString(s, i + 2, Append(acc, s[i + 1]))
           ELSE JsonFail
  ELSE JsonString(s, i + 1, Append(acc, s[i]))

\* reads body as the JSON object {"text":"..."}: whether it is well formed,
\* and the decoded value of its text field
JsonTextField(body) ==
  IF Len(body) < Len(BodyPrefix) \/ SubSeq(body, 1, Len(BodyPrefix)) # BodyPrefix
    THEN [ok |-> FALSE, text |-> << >>]
    ELSE LET r == JsonString(body, Len(BodyPrefix) + 1, << >>)
         IN  IF r.ok /\ r.next = Len(body) /\ body[r.next] = "}"
               THEN [ok |-> TRUE, text |-> r.text]
               ELSE [ok |-> FALSE, text |-> << >>]

\* C16: for every input text, a double quote or a backslash in it included,
\* the body of the synthesis request is a well-formed JSON object whose text
\* field decodes back to the input.
C16_BodyIsJsonOfText ==
  tpc # "idle" => JsonTextField(postBody) = [ok |-> TRUE, text |-> ttsText]

RECURSIVE SumOf(_)
\* the sum of a sequence of numbers
SumOf(q) == IF Len(q) = 0 THEN 0 ELSE q[1] + SumOf(Tail(q))

\* C19: on a 200 reply, every byte read from the response stream is passed to
\* playSamples in calls of at most 512 samples: after each iteration the
\* number of samples passed, times 2, equals the number of bytes read so far.
C19_EveryByteForwarded ==
  (tpc \in {"loop", "returned"} /\ trc = 200) =>
    /\ \A i \in 1..Len(playCalls) : playCalls[i] <= 512
    /\ SumOf(playCalls) * 2 = bytesRead
====
